---- MODULE Spec2Model ----
(***************************************************************************)
(* Model of Client.parse_xpath_to_gnmi_path (src/src/cisco_gnmi/client.py) *)
(* together with the tokenizer it wraps, xml.etree.ElementPath's           *)
(* xpath_tokenizer_re.  Strings are sequences of one-character strings.    *)
(* A token is the pair findall() returns: d is group 1 (element[0]) and t  *)
(* is group 2 (element[1]).                                                *)
(***************************************************************************)
EXTENDS Integers, Sequences, FiniteSets, TLC

VARIABLES
    arg_type,        \* the type of the xpath argument of the call
    arg_xpath,       \* the xpath argument of the call: its text
    origin,          \* the origin argument of the call
    path_origin,     \* path.origin
    xpath,           \* the local xpath (stripped by the call)
    pc,              \* "start", "loop" or "done"
    xpath_elements,  \* the tokens
    index,           \* the position of the for loop, from 1
    path,            \* path.elem
    curr_elem, in_filter, just_filtered, curr_key,
    result,          \* NoError while running, then Ok or the kind of the exception
    inv              \* concurrent invocations: the locals of each

vars == <<arg_type, arg_xpath, origin, path_origin, xpath, pc, xpath_elements,
          index, path, curr_elem, in_filter, just_filtered, curr_key, result, inv>>

\* The variables of the single call.
single == <<arg_type, arg_xpath, origin, path_origin, xpath, pc, xpath_elements,
            index, path, curr_elem, in_filter, just_filtered, curr_key, result>>

\* The arguments of the call.
args == <<arg_type, arg_xpath, origin>>

\* ------------------------------------------------------------------------
\* Bounds of the input space.
MaxLex == 4
MaxSegs == 3
MaxSlash == 1
MaxClauses == 2
NumInvocations == 2

\* ------------------------------------------------------------------------
\* Characters and character classes of the tokenizer.
EmptyStr == << >>
SQ == "'"
DQ == "\""
Whitespace == {" "}
\* [/.*:\[\]\(\)@=]
SingleDelims == {"/", ".", "*", ":", "[", "]", "(", ")", "@", "="}
\* the complement of [^/\[\]\(\)@!=\s]
TextExcluded == {"/", "[", "]", "(", ")", "@", "!", "="} \cup Whitespace

\* Python's None, kept apart from every string (a string holds characters),
\* and None in the place of a PathElem.
None == <<"None">>
NoneElem == [name |-> None, key |-> << >>]

\* A Python value: its type and its text.
PyVal(type, text) == [type |-> type, val |-> text]
PyNone == PyVal("NoneType", None)

\* The truth value of a Python value, as `if origin:' takes it.
PyTruthy(v) ==
    CASE v.type = "NoneType" -> FALSE
      [] v.type = "str"      -> v.val # EmptyStr
      [] v.type = "int"      -> v.val # <<"0">>
      [] v.type = "bool"     -> v.val = <<"T", "r", "u", "e">>
      [] v.type = "list"     -> v.val # <<"[", "]">>

\* isinstance(v, string_types)
IsString(type) == type = "str"

\* The least j in lo..Len(s) with s[j] = c, or 0 when there is none.
RECURSIVE FindChar(_, _, _)
FindChar(s, c, lo) ==
    IF lo > Len(s) THEN 0
    ELSE IF s[lo] = c THEN lo
    ELSE FindChar(s, c, lo + 1)

\* The length of the longest run of characters outside `excl' starting at i.
RECURSIVE RunLen(_, _, _)
RunLen(s, i, excl) ==
    IF i > Len(s) \/ s[i] \in excl THEN 0
    ELSE RunLen(s, i + 1, excl) + 1

\* The length of the longest run of characters inside `incl' starting at i.
RECURSIVE SpanLen(_, _, _)
SpanLen(s, i, incl) ==
    IF i > Len(s) \/ s[i] \notin incl THEN 0
    ELSE SpanLen(s, i + 1, incl) + 1

HasAt(s, i, c) == i <= Len(s) /\ s[i] = c

\* '[^']*' or "[^"]*" at i: the length of the literal, 0 when it does not match.
QuotedLen(s, i, q) ==
    IF ~HasAt(s, i, q) THEN 0
    ELSE LET j == FindChar(s, q, i + 1)
         IN  IF j = 0 THEN 0 ELSE j - i + 1

\* Group 1 without the two alternatives for quoted literals.
DelimLen_NoQuotes(s, i) ==
    IF HasAt(s, i, ":") /\ HasAt(s, i + 1, ":") THEN 2
    ELSE IF HasAt(s, i, "/") THEN (IF HasAt(s, i + 1, "/") THEN 2 ELSE 1)
    ELSE IF HasAt(s, i, ".") /\ HasAt(s, i + 1, ".") THEN 2
    ELSE IF HasAt(s, i, "(") /\ HasAt(s, i + 1, ")") THEN 2
    ELSE IF HasAt(s, i, "!") /\ HasAt(s, i + 1, "=") THEN 2
    ELSE IF i <= Len(s) /\ s[i] \in SingleDelims THEN 1
    ELSE 0

\* Group 1 of xpath_tokenizer_re at i (alternatives in the pattern's order):
\* '[^']*' | "[^"]*" | :: | //? | \.\. | \(\) | != | [/.*:\[\]\(\)@=]
DelimLen(s, i) ==
    IF QuotedLen(s, i, SQ) > 0 THEN QuotedLen(s, i, SQ)
    ELSE IF QuotedLen(s, i, DQ) > 0 THEN QuotedLen(s, i, DQ)
    ELSE IF HasAt(s, i, ":") /\ HasAt(s, i + 1, ":") THEN 2
    ELSE IF HasAt(s, i, "/") THEN (IF HasAt(s, i + 1, "/") THEN 2 ELSE 1)
    ELSE IF HasAt(s, i, ".") /\ HasAt(s, i + 1, ".") THEN 2
    ELSE IF HasAt(s, i, "(") /\ HasAt(s, i + 1, ")") THEN 2
    ELSE IF HasAt(s, i, "!") /\ HasAt(s, i + 1, "=") THEN 2
    ELSE IF i <= Len(s) /\ s[i] \in SingleDelims THEN 1
    ELSE 0

\* Group 2 at i: (?:\{[^}]+\})?[^/\[\]\(\)@!=\s]+
TextLen(s, i) ==
    LET close == IF HasAt(s, i, "{") THEN FindChar(s, "}", i + 1) ELSE 0
        tail  == IF close > i + 1 THEN RunLen(s, close + 1, TextExcluded) ELSE 0
    IN  IF tail > 0 THEN (close - i + 1) + tail
        ELSE RunLen(s, i, TextExcluded)

\* xpath_tokenizer_re.findall(s) from position i on: the (group 1, group 2)
\* pairs of the successive matches; a whitespace run matches with both groups
\* empty; a character no alternative matches is passed over.
RECURSIVE FindAllFrom(_, _)
FindAllFrom(s, i) ==
    IF i > Len(s) THEN << >>
    ELSE IF DelimLen(s, i) > 0
         THEN <<[d |-> SubSeq(s, i, i + DelimLen(s, i) - 1), t |-> EmptyStr]>>
              \o FindAllFrom(s, i + DelimLen(s, i))
    ELSE IF TextLen(s, i) > 0
         THEN <<[d |-> EmptyStr, t |-> SubSeq(s, i, i + TextLen(s, i) - 1)]>>
              \o FindAllFrom(s, i + TextLen(s, i))
    ELSE IF SpanLen(s, i, Whitespace) > 0
         THEN <<[d |-> EmptyStr, t |-> EmptyStr]>>
              \o FindAllFrom(s, i + SpanLen(s, i, Whitespace))
    ELSE FindAllFrom(s, i + 1)

xpath_tokenizer_re_findall(s) == FindAllFrom(s, 1)

\* str.strip(chars): every leading and every trailing character in `chars'.
RECURSIVE LStrip(_, _)
LStrip(s, chars) ==
    IF s # << >> /\ Head(s) \in chars THEN LStrip(Tail(s), chars) ELSE s

RECURSIVE RStrip(_, _)
RStrip(s, chars) ==
    IF s # << >> /\ s[Len(s)] \in chars
    THEN RStrip(SubSeq(s, 1, Len(s) - 1), chars) ELSE s

Strip(s, chars) == RStrip(LStrip(s, chars), chars)

\* ------------------------------------------------------------------------
\* The builder: proto.gnmi_pb2.Path / PathElem and the token loop.

\* The kinds of the exceptions the parser raises, by raise statement.
NoError == "none"
InvalidInput == "InvalidInput"
IncompleteElement == "IncompleteElement"
UnsupportedOperator == "UnsupportedOperator"
DuplicateKey == "DuplicateKey"
HangingKeyFilter == "HangingKeyFilter"
UnterminatedXPath == "UnterminatedXPath"
Ok == "ok"

\* proto.gnmi_pb2.PathElem(): no name, an empty key map.  The key map is the
\* sequence of its entries in insertion order.
NewPathElem == [name |-> EmptyStr, key |-> << >>]

MapKeys(m) == {m[i].k : i \in 1..Len(m)}
\* m[k] = v on a protobuf map: the entry of k is replaced, or a new one added.
MapSet(m, k, v) ==
    IF k \in MapKeys(m)
    THEN [i \in 1..Len(m) |-> IF m[i].k = k THEN [k |-> k, v |-> v] ELSE m[i]]
    ELSE Append(m, [k |-> k, v |-> v])

\* The argument checks: the exception they raise, or NoError.
CheckArgs(xtype, org) ==
    IF ~IsString(xtype) THEN InvalidInput
    ELSE IF PyTruthy(org) /\ ~IsString(org.type) THEN InvalidInput
    ELSE NoError

\* path.origin after the argument checks: the origin when it is true, the
\* default of the field otherwise.
PathOrigin(org) == IF PyTruthy(org) THEN org.val ELSE EmptyStr

\* The locals of one invocation before the first token.
InitLocals ==
    [path |-> << >>, curr_elem |-> NewPathElem, in_filter |-> FALSE,
     just_filtered |-> FALSE, curr_key |-> None, raised |-> NoError]

\* PushElem without the check that the element has a name.
PushElem_NoNameCheck(st) ==
    [st EXCEPT !.path = Append(st.path, st.curr_elem),
               !.curr_elem = NewPathElem]

\* PushElem keeping only the completed element.
PushElem_DropEarlier(st) ==
    IF st.curr_elem.name = EmptyStr
    THEN [st EXCEPT !.raised = IncompleteElement]
    ELSE [st EXCEPT !.path = <<st.curr_elem>>,
                    !.curr_elem = NewPathElem]

\* PushElem putting the completed element in front of the earlier ones.
PushElem_Prepend(st) ==
    IF st.curr_elem.name = EmptyStr
    THEN [st EXCEPT !.raised = IncompleteElement]
    ELSE [st EXCEPT !.path = <<st.curr_elem>> \o st.path,
                    !.curr_elem = NewPathElem]

\* element[0] == "/": a completed element.
PushElem(st) ==
    IF st.curr_elem.name = EmptyStr
    THEN [st EXCEPT !.raised = IncompleteElement]
    ELSE [st EXCEPT !.path = Append(st.path, st.curr_elem),
                    !.curr_elem = NewPathElem]

\* element[0] == "[" and element[0] == "]".
EnterFilter(st) == [st EXCEPT !.in_filter = TRUE]
ExitFilter(st) == [st EXCEPT !.in_filter = FALSE]

\* not in_filter: the token is the PathElem name.
ElemName(st, element) == [st EXCEPT !.curr_elem.name = element.t]

\* in a filter, right after a completed filter expression: "and" is skipped.
SkipAnd(st) == [st EXCEPT !.just_filtered = FALSE]

\* in a filter with no key pending: the token is the key name.
KeyName(st, element) == [st EXCEPT !.curr_key = element.t]

\* element[0].strip("'\"")
StripQuotes(s) == Strip(s, {SQ, DQ})

\* KeyValue without the check that the key is already in the key map.
KeyValue_Overwrite(st, element) ==
    IF element.d \in {<<">">>, <<"<">>}
    THEN [st EXCEPT !.raised = UnsupportedOperator]
    ELSE IF element.d = <<"=">> THEN st
    ELSE [st EXCEPT !.curr_elem.key =
                        MapSet(st.curr_elem.key, st.curr_key, StripQuotes(element.d)),
                    !.curr_key = None,
                    !.just_filtered = TRUE]

\* in a filter with a key pending: an operator or the key's value.
KeyValue(st, element) ==
    IF element.d \in {<<">">>, <<"<">>}
    THEN [st EXCEPT !.raised = UnsupportedOperator]
    ELSE IF element.d = <<"=">> THEN st
    ELSE IF st.curr_key \in MapKeys(st.curr_elem.key)
    THEN [st EXCEPT !.raised = DuplicateKey]
    ELSE [st EXCEPT !.curr_elem.key =
                        MapSet(st.curr_elem.key, st.curr_key, StripQuotes(element.d)),
                    !.curr_key = None,
                    !.just_filtered = TRUE]

\* The branch of the loop body that a token takes, in the order of the
\* if/elif chain.
Branch(st, element) ==
    IF element.d = <<"/">> THEN "push"
    ELSE IF element.d = <<"[">> THEN "enter"
    ELSE IF element.d = <<"]">> THEN "exit"
    ELSE IF ~st.in_filter THEN "name"
    ELSE IF element.d = EmptyStr /\ element.t = EmptyStr THEN "blank"
    ELSE IF st.in_filter /\ st.just_filtered /\ element.t = <<"a", "n", "d">>
         THEN "and"
    ELSE IF st.curr_key = None THEN "key"
    ELSE "value"

\* One iteration of the for loop.
LoopBody(st, element) ==
    CASE Branch(st, element) = "push"  -> PushElem(st)
      [] Branch(st, element) = "enter" -> EnterFilter(st)
      [] Branch(st, element) = "exit"  -> ExitFilter(st)
      [] Branch(st, element) = "name"  -> ElemName(st, element)
      [] Branch(st, element) = "blank" -> st
      [] Branch(st, element) = "and"   -> SkipAnd(st)
      [] Branch(st, element) = "key"   -> KeyName(st, element)
      [] Branch(st, element) = "value" -> KeyValue(st, element)

\* Truth value of a string operand: the pending key is true when it is
\* neither None nor empty.
Truthy(s) == s # None /\ s # EmptyStr

\* Finalize appending the element in progress only when it has a name.
Finalize_NamedOnly(st) ==
    IF Truthy(st.curr_key)
    THEN [st EXCEPT !.raised = HangingKeyFilter]
    ELSE LET appended ==
                 [st EXCEPT !.path = IF st.curr_elem.name # EmptyStr
                                     THEN Append(st.path, st.curr_elem) ELSE st.path,
                            !.curr_elem = NoneElem]
         IN  IF Truthy(appended.curr_key) \/ appended.in_filter
             THEN [appended EXCEPT !.raised = UnterminatedXPath]
             ELSE appended

\* Finalize without the unfinished-elements check.
Finalize_NoFilterCheck(st) ==
    IF Truthy(st.curr_key)
    THEN [st EXCEPT !.raised = HangingKeyFilter]
    ELSE [st EXCEPT !.path = Append(st.path, st.curr_elem),
                    !.curr_elem = NoneElem]

\* After the loop: the hanging-key check, the final append, the
\* unfinished-elements check.  A PathElem message is always true, so the
\* element in progress is appended whatever its name is; curr_elem is None
\* afterwards and a true curr_key has raised already.
Finalize(st) ==
    IF Truthy(st.curr_key)
    THEN [st EXCEPT !.raised = HangingKeyFilter]
    ELSE LET appended == [st EXCEPT !.path = Append(st.path, st.curr_elem),
                                    !.curr_elem = NoneElem]
         IN  IF Truthy(appended.curr_key) \/ appended.in_filter
             THEN [appended EXCEPT !.raised = UnterminatedXPath]
             ELSE appended

\* The whole function on a string argument: [outcome, path].
RECURSIVE RunLoop(_, _, _)
RunLoop(st, elements, i) ==
    IF i > Len(elements) \/ st.raised # NoError THEN st
    ELSE RunLoop(LoopBody(st, elements[i]), elements, i + 1)

parse_xpath_to_gnmi_path(x) ==
    LET looped == RunLoop(InitLocals, xpath_tokenizer_re_findall(Strip(x, {"/"})), 1)
        final  == IF looped.raised # NoError THEN looped ELSE Finalize(looped)
    IN  IF final.raised # NoError
        THEN [outcome |-> final.raised, path |-> << >>]
        ELSE [outcome |-> Ok, path |-> final.path]

\* ------------------------------------------------------------------------
\* The inputs.

RECURSIVE Flatten(_)
Flatten(ss) == IF ss = << >> THEN << >> ELSE Head(ss) \o Flatten(Tail(ss))

RECURSIVE Join(_, _)
Join(ss, sep) ==
    IF ss = << >> THEN << >>
    ELSE IF Len(ss) = 1 THEN ss[1]
    ELSE ss[1] \o sep \o Join(Tail(ss), sep)

RECURSIVE Repeat(_, _)
Repeat(s, n) == IF n = 0 THEN << >> ELSE s \o Repeat(s, n - 1)

SeqsUpTo(S, n) == UNION {[1..m -> S] : m \in 0..n}

AndWord == <<"a", "n", "d">>
Names == {<<"a">>, <<"b", "c">>}
SimpleNames == Names \cup {AndWord}
Keys == {<<"k">>, AndWord}
UnquotedValues == {<<"v">>}
QuotedValues == {<<SQ, "v", SQ>>, <<DQ, SQ, "v", SQ, DQ>>}
Values == UnquotedValues \cup QuotedValues

\* Any text: the lexemes in any order.
Lexemes == {<<"a">>, <<"/">>, <<"[">>, <<"]">>, <<"=">>, <<SQ, "v", SQ>>, <<" ">>}
FreeInputs == {Flatten(ls) : ls \in SeqsUpTo(Lexemes, MaxLex)}

\* Names joined by "/", with leading and trailing slashes.
NamePath(ns) == Join(ns, <<"/">>)
NameInputs ==
    {Repeat(<<"/">>, l) \o NamePath(ns) \o Repeat(<<"/">>, t) :
        l \in 0..MaxSlash, t \in 0..MaxSlash, ns \in SeqsUpTo(SimpleNames, MaxSegs)}

\* One filtered element, alone or between two plain ones; its clauses in
\* separate bracket groups or in one group joined by " and ".
Clause(k, v) == k \o <<"=">> \o v
Clauses == {Clause(k, v) : k \in Keys, v \in Values} \cup {<<"k", ">", "v">>}
SepGroups(cs) == Flatten([i \in 1..Len(cs) |-> <<"[">> \o cs[i] \o <<"]">>])
AndGroup(cs) ==
    IF cs = << >> THEN << >>
    ELSE <<"[">> \o Join(cs, <<" ">> \o AndWord \o <<" ">>) \o <<"]">>
Filters ==
    {SepGroups(cs) : cs \in SeqsUpTo(Clauses, MaxClauses)}
    \cup {AndGroup(cs) : cs \in SeqsUpTo(Clauses, MaxClauses)}
FilterInputs ==
    {n \o f : n \in Names, f \in Filters}
    \cup {m \o <<"/">> \o n \o f \o <<"/">> \o o :
            m \in Names, n \in {<<"a">>}, f \in Filters, o \in {<<"b", "c">>}}

\* Two filtered elements, one clause each.
TwoFilterInputs ==
    {n \o <<"[">> \o Clause(k1, v1) \o <<"]", "/">> \o m \o <<"[">> \o Clause(k2, v2) \o <<"]">> :
        n \in Names, m \in Names, k1 \in Keys, k2 \in Keys, v1 \in Values, v2 \in Values}

\* One filtered element whose value has a "/" in it, quoted or not.
SlashText == <<"v", "/", "w">>
UnquotedSlashValues == {SlashText}
QuotedSlashValues == {<<SQ>> \o SlashText \o <<SQ>>, <<DQ>> \o SlashText \o <<DQ>>}
SlashValueInputs ==
    {n \o <<"[">> \o Clause(k, v) \o <<"]">> :
        n \in Names, k \in Keys, v \in UnquotedSlashValues \cup QuotedSlashValues}

\* Three segments, the middle one of whitespace only.
BlankSegmentInputs ==
    {NamePath(<<n, <<" ">>, m>>) : n \in Names, m \in Names}

Inputs ==
    FreeInputs \cup NameInputs \cup FilterInputs \cup TwoFilterInputs
    \cup SlashValueInputs \cup BlankSegmentInputs

\* The calls: every input as a string with no origin, and a few xpath
\* arguments, strings or not, with every origin.
Origins ==
    {PyNone,
     PyVal("str", EmptyStr), PyVal("str", <<"o", "c">>),
     PyVal("int", <<"0">>), PyVal("int", <<"5">>),
     PyVal("bool", <<"F", "a", "l", "s", "e">>), PyVal("bool", <<"T", "r", "u", "e">>),
     PyVal("list", <<"[", "]">>), PyVal("list", <<"[", "a", "]">>)}
OriginCallArgs ==
    {PyVal("str", <<"a">>), PyVal("str", <<"o", "c", "/", "a">>),
     PyVal("str", <<"a", "[">>), PyVal("int", <<"5">>), PyNone}
Calls ==
    {[xpath |-> PyVal("str", x), origin |-> PyNone] : x \in Inputs}
    \cup {[xpath |-> x, origin |-> o] : x \in OriginCallArgs, o \in Origins}

\* ------------------------------------------------------------------------
\* The call, one token at a time.

Locals ==
    [path |-> path, curr_elem |-> curr_elem, in_filter |-> in_filter,
     just_filtered |-> just_filtered, curr_key |-> curr_key, raised |-> result]

\* The locals after a step; an exception ends the call.
Assign(st) ==
    /\ path' = st.path
    /\ curr_elem' = st.curr_elem
    /\ in_filter' = st.in_filter
    /\ just_filtered' = st.just_filtered
    /\ curr_key' = st.curr_key
    /\ result' = st.raised
    /\ pc' = IF st.raised # NoError THEN "done" ELSE pc

Init ==
    /\ \E c \in Calls :
          /\ arg_type = c.xpath.type
          /\ arg_xpath = c.xpath.val
          /\ origin = c.origin
    /\ path_origin = EmptyStr
    /\ xpath = arg_xpath
    /\ pc = "start"
    /\ xpath_elements = << >>
    /\ index = 1
    /\ path = InitLocals.path
    /\ curr_elem = InitLocals.curr_elem
    /\ in_filter = InitLocals.in_filter
    /\ just_filtered = InitLocals.just_filtered
    /\ curr_key = InitLocals.curr_key
    /\ result = NoError
    /\ inv = << >>

\* The argument checks raise.
RejectArgs ==
    /\ pc = "start"
    /\ CheckArgs(arg_type, origin) # NoError
    /\ result' = CheckArgs(arg_type, origin)
    /\ pc' = "done"
    /\ UNCHANGED <<args, path_origin, xpath, xpath_elements, index, path, curr_elem,
                   in_filter, just_filtered, curr_key, inv>>

\* The argument checks pass: path.origin = origin; xpath = xpath.strip("/");
\* xpath_elements = xpath_tokenizer_re.findall(xpath)
Begin ==
    /\ pc = "start"
    /\ CheckArgs(arg_type, origin) = NoError
    /\ path_origin' = PathOrigin(origin)
    /\ xpath' = Strip(xpath, {"/"})
    /\ xpath_elements' = xpath_tokenizer_re_findall(xpath')
    /\ pc' = "loop"
    /\ UNCHANGED <<args, index, path, curr_elem, in_filter, just_filtered,
                   curr_key, result, inv>>

InLoop == pc = "loop" /\ index <= Len(xpath_elements)
element == xpath_elements[index]

\* One iteration: the loop body on the current token, then the next token.
Iterate ==
    /\ Assign(LoopBody(Locals, element))
    /\ index' = IF result' # NoError THEN index ELSE index + 1
    /\ UNCHANGED <<args, path_origin, xpath, xpath_elements, inv>>

\* The iterations, by the branch of the loop body the token takes.
DoPushElem ==
    /\ InLoop
    /\ Branch(Locals, element) = "push"
    /\ Iterate

DoEnterFilter ==
    /\ InLoop
    /\ Branch(Locals, element) = "enter"
    /\ Iterate

DoExitFilter ==
    /\ InLoop
    /\ Branch(Locals, element) = "exit"
    /\ Iterate

DoElemName ==
    /\ InLoop
    /\ Branch(Locals, element) = "name"
    /\ Iterate

DoSkipBlank ==
    /\ InLoop
    /\ Branch(Locals, element) = "blank"
    /\ Iterate

DoSkipAnd ==
    /\ InLoop
    /\ Branch(Locals, element) = "and"
    /\ Iterate

DoKeyName ==
    /\ InLoop
    /\ Branch(Locals, element) = "key"
    /\ Iterate

DoKeyValue ==
    /\ InLoop
    /\ Branch(Locals, element) = "value"
    /\ Iterate

\* The code after the loop, up to the return.
Finish ==
    /\ pc = "loop"
    /\ index > Len(xpath_elements)
    /\ LET st == Finalize(Locals)
       IN  /\ path' = st.path
           /\ curr_elem' = st.curr_elem
           /\ in_filter' = st.in_filter
           /\ just_filtered' = st.just_filtered
           /\ curr_key' = st.curr_key
           /\ result' = IF st.raised # NoError THEN st.raised ELSE Ok
    /\ pc' = "done"
    /\ UNCHANGED <<args, path_origin, xpath, xpath_elements, index, inv>>

Next ==
    \/ RejectArgs
    \/ Begin
    \/ DoPushElem
    \/ DoEnterFilter
    \/ DoExitFilter
    \/ DoElemName
    \/ DoSkipBlank
    \/ DoSkipAnd
    \/ DoKeyName
    \/ DoKeyValue
    \/ Finish

Spec == Init /\ [][Next]_vars

\* ------------------------------------------------------------------------
\* Concurrent calls: each invocation has its own arguments and locals, and
\* the invocations take their steps (the argument checks and tokenizing, one
\* loop iteration, the code after the loop) in any order.

Invocations == 1..NumInvocations

ConcCalls ==
    {[xpath |-> PyVal("str", x), origin |-> PyNone] :
        x \in {<<"a", "/", "b", "c">>,
                <<"a", "[", "k", "=", SQ, "v", SQ, "]">>,
                <<"a", "[", "k">>,
                <<"/", "[", "/">>}}
    \cup {[xpath |-> PyVal("int", <<"5">>), origin |-> PyNone]}

NewInvocation(c) ==
    [call |-> c, pc |-> "start", xpath_elements |-> << >>, index |-> 1,
     st |-> InitLocals]

\* The locals invocation i works on: its own.
LocalsOf_Shared(i) == [inv[i].st EXCEPT !.curr_key = inv[1].st.curr_key]

LocalsOf(i) == inv[i].st

InitConc ==
    /\ inv \in [Invocations -> {NewInvocation(c) : c \in ConcCalls}]
    /\ arg_type = "str"
    /\ arg_xpath = EmptyStr
    /\ origin = PyNone
    /\ path_origin = EmptyStr
    /\ xpath = EmptyStr
    /\ pc = "done"
    /\ xpath_elements = << >>
    /\ index = 1
    /\ path = << >>
    /\ curr_elem = NoneElem
    /\ in_filter = FALSE
    /\ just_filtered = FALSE
    /\ curr_key = None
    /\ result = InvalidInput

ConcBegin(i) ==
    /\ inv[i].pc = "start"
    /\ LET c   == inv[i].call
           err == CheckArgs(c.xpath.type, c.origin)
       IN  inv' = [inv EXCEPT ![i] =
                IF err # NoError
                THEN [@ EXCEPT !.pc = "done", !.st.raised = err]
                ELSE [@ EXCEPT !.pc = "loop",
                               !.xpath_elements =
                                   xpath_tokenizer_re_findall(Strip(c.xpath.val, {"/"}))]]
    /\ UNCHANGED single

ConcIterate(i) ==
    /\ inv[i].pc = "loop"
    /\ inv[i].index <= Len(inv[i].xpath_elements)
    /\ LET st == LoopBody(LocalsOf(i), inv[i].xpath_elements[inv[i].index])
       IN  inv' = [inv EXCEPT ![i] =
                [@ EXCEPT !.st = st,
                          !.pc = IF st.raised # NoError THEN "done" ELSE "loop",
                          !.index = IF st.raised # NoError THEN @ ELSE @ + 1]]
    /\ UNCHANGED single

ConcFinish(i) ==
    /\ inv[i].pc = "loop"
    /\ inv[i].index > Len(inv[i].xpath_elements)
    /\ LET st == Finalize(LocalsOf(i))
       IN  inv' = [inv EXCEPT ![i] =
                [@ EXCEPT !.st = [st EXCEPT !.raised =
                                     IF st.raised # NoError THEN st.raised ELSE Ok],
                          !.pc = "done"]]
    /\ UNCHANGED single

NextConc ==
    \E i \in Invocations :
        \/ ConcBegin(i)
        \/ ConcIterate(i)
        \/ ConcFinish(i)

SpecConc == InitConc /\ [][NextConc]_vars

TypeOK ==
    /\ pc \in {"start", "loop", "done"}
    /\ in_filter \in BOOLEAN
    /\ just_filtered \in BOOLEAN
    /\ result \in {NoError, Ok, InvalidInput, IncompleteElement, UnsupportedOperator,
                   DuplicateKey, HangingKeyFilter, UnterminatedXPath}
    /\ (pc = "done") = (result # NoError)

\* ------------------------------------------------------------------------
\* Properties.

\* The call returned a Path.
Returned == pc = "done" /\ result = Ok
\* The call has ended and its arguments had passed the checks.
Checked == pc = "done" /\ CheckArgs(arg_type, origin) = NoError
\* The loop ran over every token and the code after the loop has run.
EndOfInput == pc = "done" /\ result # InvalidInput /\ index > Len(xpath_elements)

PlainElem(n) == [name |-> n, key |-> << >>]
IsPrefix(a, b) == Len(a) <= Len(b) /\ SubSeq(b, 1, Len(a)) = a

\* C1: parsing m/n[k=v]/o (and n[k=v]) with an unquoted value v returns the
\* elements in order, the filtered one with the key map {k -> v} (the text of
\* the value token), the others with empty key maps.
C1_UnquotedValueStored ==
    Checked =>
        \A m \in Names, n \in Names, o \in Names, k \in Keys, v \in UnquotedValues :
            LET seg  == n \o <<"[">> \o Clause(k, v) \o <<"]">>
                elem == [name |-> n, key |-> <<[k |-> k, v |-> v]>>]
            IN  /\ arg_xpath = seg => result = Ok /\ path = <<elem>>
                /\ arg_xpath = m \o <<"/">> \o seg \o <<"/">> \o o
                     => result = Ok /\ path = <<PlainElem(m), elem, PlainElem(o)>>

\* C2: an input made of one or more simple names joined by "/", with leading
\* and trailing "/", returns one element per name, in the order of the input,
\* each with an empty key map.
C2_NamesInOrder ==
    Checked =>
        \A ns \in SeqsUpTo(SimpleNames, MaxSegs) \ {<< >>} :
        \A l \in 0..MaxSlash, t \in 0..MaxSlash :
            arg_xpath = Repeat(<<"/">>, l) \o NamePath(ns) \o Repeat(<<"/">>, t)
                => /\ result = Ok
                   /\ path = [i \in 1..Len(ns) |-> PlainElem(ns[i])]

C2_Witness ==
    /\ Returned
    /\ arg_xpath = <<"/", "b", "c", "/", "a", "/", "a", "n", "d", "/">>
    /\ path = <<PlainElem(<<"b", "c">>), PlainElem(<<"a">>), PlainElem(AndWord)>>

\* C3: every element of a returned Path has a non-empty name.
C3_NoEmptyName ==
    Returned => \A i \in 1..Len(path) : path[i].name # EmptyStr

\* C4: a value arriving for a pending key that is already in the current
\* element's key map raises DuplicateKey and leaves the key map as it was; no
\* step other than the "/" that starts a new element changes or removes an
\* entry of the current element's key map; and no element ever has two
\* entries for one key.
NoTwoEntries(e) ==
    \A i, j \in 1..Len(e.key) : e.key[i].k = e.key[j].k => i = j
ValueArrives ==
    InLoop /\ Branch(Locals, element) = "value" /\ element.d # <<"=">>
C4_DuplicateKeyRejected ==
    /\ [][ValueArrives /\ curr_key \in MapKeys(curr_elem.key)
             => result' = DuplicateKey /\ curr_elem' = curr_elem /\ path' = path]_vars
    /\ [][InLoop /\ Branch(Locals, element) # "push"
             => IsPrefix(curr_elem.key, curr_elem'.key)]_vars
    /\ [](pc # "done" => NoTwoEntries(curr_elem))
    /\ [](\A i \in 1..Len(path) : NoTwoEntries(path[i]))

C4_Witness ==
    /\ result = DuplicateKey
    /\ arg_xpath = <<"a", "[", "k", "=", SQ, "v", SQ, "]", "[", "k", "=", "v", "]">>
    /\ curr_key = <<"k">>
    /\ curr_elem.key = <<[k |-> <<"k">>, v |-> <<"v">>]>>

\* The outcome of the call as the pure function reports it.
Outcome == [outcome |-> result, path |-> IF result = Ok THEN path ELSE << >>]

\* C5: for every element name and every list of clauses with distinct keys,
\* the clauses in separate bracket groups and the clauses in one group joined
\* by "and" both return a Path, and the same one.
KeyValueClauses(n) ==
    {cs \in [1..n -> Keys \X Values] : \A i, j \in 1..n : cs[i][1] = cs[j][1] => i = j}
ClauseTexts(cs) == [i \in 1..Len(cs) |-> Clause(cs[i][1], cs[i][2])]
C5_GroupsEquivalent ==
    Checked =>
        \A nc \in 1..MaxClauses : \A cs \in KeyValueClauses(nc) : \A n \in Names :
            arg_xpath = n \o SepGroups(ClauseTexts(cs))
                => /\ result = Ok
                   /\ Outcome = parse_xpath_to_gnmi_path(n \o AndGroup(ClauseTexts(cs)))

\* C6: a quoted literal as a filter value is stored with exactly one pair of
\* surrounding quote characters removed; quote characters inside stay.
WithoutOnePair(q) == SubSeq(q, 2, Len(q) - 1)
C6_OnePairStripped ==
    Checked =>
        \A n \in Names, k \in Keys, q \in QuotedValues :
            arg_xpath = n \o <<"[">> \o Clause(k, q) \o <<"]">>
                => /\ result = Ok
                   /\ path = <<[name |-> n, key |-> <<[k |-> k, v |-> WithoutOnePair(q)]>>]>>

\* C7: "<" and ">" are tokens of their own, and a filter with ">" between a
\* key name and a value fails with UnsupportedOperator.
HasChar(str, c) == \E i \in 1..Len(str) : str[i] = c
C7_RelationalOperatorRejected ==
    /\ \A i \in 1..Len(xpath_elements) : \A c \in {"<", ">"} :
          HasChar(xpath_elements[i].d \o xpath_elements[i].t, c)
              => xpath_elements[i] = [d |-> <<c>>, t |-> EmptyStr]
    /\ Checked =>
          \A n \in Names :
              arg_xpath = n \o <<"[", "k", ">", "v", "]">> => result = UnsupportedOperator

\* C8 as stated: whenever the input ends inside an open "[", the call fails
\* with UnterminatedXPath.
C8_OpenFilterUnterminated ==
    EndOfInput /\ in_filter => result = UnterminatedXPath

\* C8 as amended: whenever the input ends inside an open "[", the call fails:
\* with HangingKeyFilter when a non-empty key is pending, with
\* UnterminatedXPath otherwise.
C8_OpenFilterFails ==
    EndOfInput /\ in_filter =>
        result = IF Truthy(curr_key) THEN HangingKeyFilter ELSE UnterminatedXPath

C8_Witness ==
    /\ EndOfInput
    /\ in_filter
    /\ curr_key = None
    /\ result = UnterminatedXPath
    /\ path # << >>
    /\ path[Len(path)].key # << >>

\* C9: whenever the input ends while a key is pending, the call fails with
\* HangingKeyFilter (whether the filter is still open or not); it never
\* returns a Path then.
C9_PendingKeyHangs ==
    EndOfInput /\ curr_key # None => result = HangingKeyFilter

\* C10: a "/" processed while a key is pending fails with HangingKeyFilter.
C10_SlashWithPendingKey ==
    [][InLoop /\ Branch(Locals, element) = "push" /\ curr_key # None
         => result' = HangingKeyFilter]_vars

\* C11: a call whose xpath is not a string, or whose origin is supplied (is
\* not None) and is not a string, fails with InvalidInput before any token
\* is processed; a string origin is copied to path.origin, and path.origin
\* is empty when no origin is supplied.
BadArgs == ~IsString(arg_type) \/ (origin # PyNone /\ ~IsString(origin.type))
C11_ArgumentsValidated ==
    pc = "done" =>
        /\ BadArgs => result = InvalidInput /\ xpath_elements = << >> /\ index = 1
        /\ ~BadArgs => result # InvalidInput
        /\ ~BadArgs /\ IsString(origin.type) => path_origin = origin.val
        /\ ~BadArgs /\ origin = PyNone => path_origin = EmptyStr

\* C12: whatever the order in which concurrent invocations take their
\* steps, each ends with the outcome (the same Path or the same kind of
\* error) that the call gives when it runs alone.
RunAlone(c) ==
    IF CheckArgs(c.xpath.type, c.origin) # NoError
    THEN [outcome |-> CheckArgs(c.xpath.type, c.origin), path |-> << >>]
    ELSE parse_xpath_to_gnmi_path(c.xpath.val)
OutcomeOf(i) ==
    [outcome |-> inv[i].st.raised,
     path |-> IF inv[i].st.raised = Ok THEN inv[i].st.path ELSE << >>]
C12_InterleavingKeepsOutcome ==
    \A i \in DOMAIN inv : inv[i].pc = "done" => OutcomeOf(i) = RunAlone(inv[i].call)

C12_Witness ==
    /\ DOMAIN inv # {}
    /\ inv[1].pc = "done"
    /\ inv[1].st.raised = Ok
    /\ inv[2].pc = "loop"
    /\ inv[2].index > 1
    /\ inv[2].st.curr_key = <<"k">>
    /\ inv[1].call # inv[2].call

\* C13: a blank token changes nothing: the elements, the current element,
\* in_filter, just_filtered and the pending key stay as they are and the
\* parse goes on.
IsBlank(tok) == tok.d = EmptyStr /\ tok.t = EmptyStr
C13_BlankChangesNothing ==
    [][InLoop /\ IsBlank(element)
         => /\ result' = NoError
            /\ path' = path
            /\ curr_elem' = curr_elem
            /\ in_filter' = in_filter
            /\ just_filtered' = just_filtered
            /\ curr_key' = curr_key]_vars

\* C14: just_filtered is true after a token only if that token completed a
\* key=value pair, or was a blank right after one; and in n[k=v]/m[and=w] the
\* "and" of the second element is read as a key name.
CompletesPair == ValueArrives /\ curr_key \notin MapKeys(curr_elem.key)
C14_AndOnlyAfterPair ==
    /\ [][InLoop /\ just_filtered'
             => CompletesPair \/ (IsBlank(element) /\ just_filtered)]_vars
    /\ [](pc = "done" =>
            \A n \in Names, m \in Names, k \in Keys, v \in Values, w \in Values :
                arg_xpath = n \o <<"[">> \o Clause(k, v) \o <<"]", "/">>
                            \o m \o <<"[">> \o Clause(AndWord, w) \o <<"]">>
                    => /\ result = Ok
                       /\ Len(path) = 2
                       /\ AndWord \in MapKeys(path[Len(path)].key))

\* The "/" delimiter tokens of the token stream.
SlashTokens == {i \in 1..Len(xpath_elements) : xpath_elements[i].d = <<"/">>}
SingleKeyElem(n, k, v) == [name |-> n, key |-> <<[k |-> k, v |-> v]>>]

\* C15 as stated: a "/" in a filter value, quoted or not, is a "/" delimiter
\* token, and n[k=value] does not return the single element whose key value
\* is the value's text.
C15_SlashSplitsValue ==
    pc # "start" =>
        \A n \in Names, k \in Keys, v \in UnquotedSlashValues \cup QuotedSlashValues :
            arg_xpath = n \o <<"[">> \o Clause(k, v) \o <<"]">>
                => /\ SlashTokens # {}
                   /\ ~(Returned /\ path = <<SingleKeyElem(n, k, SlashText)>>)

\* C15 as amended: a "/" in an unquoted filter value is a "/" delimiter
\* token and n[k=value] does not return the single element with that key
\* value; a "/" in a quoted literal is part of the literal's token, and
\* n[k='value'] returns the single element whose key value is the text
\* between the quotes.
C15_SlashSplitsUnquotedValue ==
    pc # "start" =>
        \A n \in Names, k \in Keys :
            /\ \A v \in UnquotedSlashValues :
                  arg_xpath = n \o <<"[">> \o Clause(k, v) \o <<"]">>
                      => /\ SlashTokens # {}
                         /\ ~(Returned /\ path = <<SingleKeyElem(n, k, SlashText)>>)
            /\ \A v \in QuotedSlashValues :
                  arg_xpath = n \o <<"[">> \o Clause(k, v) \o <<"]">>
                      => /\ SlashTokens = {}
                         /\ pc = "done" =>
                               Returned /\ path = <<SingleKeyElem(n, k, SlashText)>>

C15_Witness ==
    /\ Returned
    /\ arg_xpath = <<"a", "[", "k", "=", SQ, "v", "/", "w", SQ, "]">>
    /\ path = <<SingleKeyElem(<<"a">>, <<"k">>, SlashText)>>

\* C16: a "/" processed while the current element has no name raises
\* IncompleteElement and appends nothing; otherwise it appends the current
\* element, whose name is not empty, and a fresh element with no name and no
\* keys becomes current.
C16_SlashPushesNamedElement ==
    [][InLoop /\ element.d = <<"/">>
         => IF curr_elem.name = EmptyStr
            THEN result' = IncompleteElement /\ pc' = "done" /\ path' = path
            ELSE /\ result' = NoError
                 /\ path' = Append(path, curr_elem)
                 /\ path'[Len(path')].name # EmptyStr
                 /\ curr_elem' = NewPathElem]_vars

C16_Witness ==
    /\ pc = "done"
    /\ result = IncompleteElement
    /\ xpath_elements[index].d = <<"/">>
    /\ path = <<PlainElem(<<"a">>)>>
    /\ curr_elem.name = EmptyStr

\* C17: when two or more text tokens stand outside a filter in one segment
\* (since the last "/"), with nothing but whitespace and filter sections
\* around them, the "/" that ends the segment does not fail and pushes an
\* element named by the last of them, and so does the end of the input when
\* the call returns.
SetMax(S) == CHOOSE x \in S : \A y \in S : y <= x
\* in_filter as the brackets before token j leave it
InFilterAt(j) ==
    LET bs == {b \in 1..(j - 1) : xpath_elements[b].d \in {<<"[">>, <<"]">>}}
    IN  bs # {} /\ xpath_elements[SetMax(bs)].d = <<"[">>
SegmentStart(i) ==
    LET ss == {j \in SlashTokens : j < i} IN IF ss = {} THEN 0 ELSE SetMax(ss)
NameTokens(i) ==
    {j \in (SegmentStart(i) + 1)..(i - 1) :
        xpath_elements[j].t # EmptyStr /\ ~InFilterAt(j)}
LastNameText(i) == xpath_elements[SetMax(NameTokens(i))].t
\* the segment before token i: text, blanks and filter sections only
SeveralNames(i) ==
    /\ Cardinality(NameTokens(i)) >= 2
    /\ \A j \in (SegmentStart(i) + 1)..(i - 1) :
          \/ InFilterAt(j)
          \/ xpath_elements[j].d \in {EmptyStr, <<"[">>, <<"]">>}
C17_LastNameWins ==
    /\ [][InLoop /\ element.d = <<"/">> /\ SeveralNames(index)
             => /\ result' = NoError
                /\ path'[Len(path')].name = LastNameText(index)]_vars
    /\ [][pc = "loop" /\ index > Len(xpath_elements)
               /\ SeveralNames(index) /\ result' = Ok
             => path'[Len(path')].name = LastNameText(index)]_vars

\* C18: every step leaves the elements appended so far as they are, in
\* place, and only adds elements after them.
C18_ElementsGrowAtTail ==
    [][IsPrefix(path, path')]_vars

C18_Witness ==
    /\ pc = "loop"
    /\ Len(path) = 1
    /\ path[1] = PlainElem(<<"a">>)
    /\ curr_elem.name = <<"a">>
    /\ curr_elem.key # << >>

\* C19: a returned Path has one more element than the token stream has "/"
\* delimiter tokens; it never has no element.
C19_OneMoreThanSlashes ==
    Returned => Len(path) = Cardinality(SlashTokens) + 1

C19_Witness ==
    /\ Returned
    /\ Cardinality(SlashTokens) = 2
    /\ Len(path) = 3
    /\ \E i \in 1..Len(path) : path[i].key # << >>

\* C20: the pending key is never the empty string, and every key of every
\* element of a returned Path is a non-empty string.
C20_KeysNotEmpty ==
    /\ curr_key # EmptyStr
    /\ Returned =>
          \A i \in 1..Len(path) : \A j \in 1..Len(path[i].key) :
              path[i].key[j].k # EmptyStr

====
